---- MODULE Spec2Model ----
(***************************************************************************)
(* A model of NCGenerator: the image -> points -> paths -> toolpath        *)
(* pipeline of data_classes.py and generator.py.                           *)
(*                                                                         *)
(* Pixels and points are pairs <<x, y>>.  A binary image (PIL mode "1") is *)
(* a function from its pixels to {0, 255}: 0 is line, 255 is background.   *)
(***************************************************************************)
EXTENDS Integers, Sequences, FiniteSets, TLC

VARIABLES
    \* Points.from_image_trace
    tpc,                \* position: "start", "loop", "done", "idle"
    width, height,      \* pil_img.width, pil_img.height
    img,                \* pil_img, mutated in place by putpixel
    img0,               \* the image as it was handed in
    remove_queue,       \* list of pixels
    remove_queue_dict,  \* keys of the dedup dictionary
    removed,            \* the pixel the last loop iteration set to 255, or <<>>
    point_list,         \* the returned Points, as a list
    \* Paths.from_points
    ppc,                \* position: "start", "walk", "done", "error", "idle"
    points,             \* the Points handed in, as a list
    min_path_length,
    point_i,            \* position of the for loop over points (from 1)
    paths,              \* paths._path_list
    unexpandable_points,\* keys of the dictionary
    result_paths,       \* the returned Paths
    \* Path.compress
    cpc,                \* position: "loop", "done", "idle"
    input_path,         \* self._point_list as it was when compress was called
    max_dist,
    path_point_list,    \* self._point_list, mutated in place
    kept,               \* for each entry of path_point_list, its position in
                        \* input_path (history of the deletions)
    point_on,           \* 0-based, as in the code
    segment_removing,
    \* Heightmap.get_rows_max / get_columns_max
    hpc,                \* position: "start", "done", "idle"
    rows, columns,      \* self._rows, self._columns
    heights,            \* self._heights
    lines_asked,        \* the list of rows (or of columns) passed
    max_points,         \* the returned list of pairs
    \* Generator._split_points
    spc,                \* position: "loop", "done", "idle"
    split_points,       \* the parameter points
    bit_size,           \* self._bit_size
    split_i,            \* position of the for loop over points (from 1)
    cover_points, bit_pos, cr_cover_points, cr_bit_pos, cr_start,
    \* Path.from_points, called on its own
    fpc,                \* position: "call", "done", "error", "idle"
    arg_points,         \* the parameter points, as a list
    arg_start_point,    \* the parameter start_point: a point, or <<>> for None
    arg_allow_loop,     \* the parameter allow_loop
    arg_return_affected,\* the parameter return_affected_points
    ret_path,           \* the returned Path, as a list
    \* Generator: carve_paths, carve_path, _carve_heightmap_pass
    gpc,                \* position: "run", "done", "error", "idle"
    mm_ratio,           \* self._mm_ratio
    min_move_dist,      \* self._min_move_dist
    gen_bit_size,       \* self._bit_size
    move_code,          \* self._move_code, as the list of its lines
    stack,              \* the call stack: one record per call in progress,
                        \* the innermost last
    call                \* the call made by the user of the Generator

traceVars == <<tpc, width, height, img, img0, remove_queue, remove_queue_dict,
               removed, point_list>>

pathsVars == <<ppc, points, min_path_length, point_i, paths,
               unexpandable_points, result_paths>>

compressVars == <<cpc, input_path, max_dist, path_point_list, kept, point_on,
                  segment_removing>>

heightVars == <<hpc, rows, columns, heights, lines_asked, max_points>>

splitVars == <<spc, split_points, bit_size, split_i, cover_points, bit_pos,
               cr_cover_points, cr_bit_pos, cr_start>>

fromVars == <<fpc, arg_points, arg_start_point, arg_allow_loop,
              arg_return_affected, ret_path>>

carveVars == <<gpc, mm_ratio, min_move_dist, gen_bit_size, move_code, stack,
               call>>

vars == <<traceVars, pathsVars, compressVars, heightVars, splitVars, fromVars,
          carveVars>>

notTrace == <<pathsVars, compressVars, heightVars, splitVars, fromVars, carveVars>>
notPaths == <<traceVars, compressVars, heightVars, splitVars, fromVars, carveVars>>
notCompress == <<traceVars, pathsVars, heightVars, splitVars, fromVars, carveVars>>
notHeight == <<traceVars, pathsVars, compressVars, splitVars, fromVars, carveVars>>
notSplit == <<traceVars, pathsVars, compressVars, heightVars, fromVars, carveVars>>
notFrom == <<traceVars, pathsVars, compressVars, heightVars, splitVars, carveVars>>
notCarve == <<traceVars, pathsVars, compressVars, heightVars, splitVars, fromVars>>

None == "None"

\* Each operation below is run on its own: the state of the others is idle.
TraceIdle ==
    /\ tpc = "idle" /\ width = 0 /\ height = 0 /\ img = <<>> /\ img0 = <<>>
    /\ remove_queue = <<>> /\ remove_queue_dict = {} /\ removed = <<>>
    /\ point_list = <<>>

PathsIdle ==
    /\ ppc = "idle" /\ points = <<>> /\ min_path_length = 0 /\ point_i = 0
    /\ paths = <<>> /\ unexpandable_points = {} /\ result_paths = <<>>

CompressIdle ==
    /\ cpc = "idle" /\ input_path = <<>> /\ max_dist = 0
    /\ path_point_list = <<>> /\ kept = <<>> /\ point_on = 0
    /\ segment_removing = <<>>

HeightIdle ==
    /\ hpc = "idle" /\ rows = <<>> /\ columns = <<>> /\ heights = <<>>
    /\ lines_asked = <<>> /\ max_points = <<>>

SplitIdle ==
    /\ spc = "idle" /\ split_points = <<>> /\ bit_size = 0 /\ split_i = 0
    /\ cover_points = <<>> /\ bit_pos = <<>> /\ cr_cover_points = <<>>
    /\ cr_bit_pos = None /\ cr_start = 0

FromIdle ==
    /\ fpc = "idle" /\ arg_points = <<>> /\ arg_start_point = <<>>
    /\ arg_allow_loop = FALSE /\ arg_return_affected = FALSE
    /\ ret_path = <<>>

CarveIdle ==
    /\ gpc = "idle" /\ mm_ratio = 0 /\ min_move_dist = 0 /\ gen_bit_size = 0
    /\ move_code = <<>> /\ stack = <<>> /\ call = <<>>

----------------------------------------------------------------------------
(* Bounds *)

ImgW == 3
ImgH == 3

----------------------------------------------------------------------------
(* Helpers on sequences *)

Range(s) == {s[i] : i \in 1..Len(s)}

Count(s, v) == Cardinality({i \in 1..Len(s) : s[i] = v})

----------------------------------------------------------------------------
(* data_classes.py: is_pixel_unneeded and Points.from_image_trace *)

Pixels(w, h) == (0..(w-1)) \X (0..(h-1))

\* for x in range(width): for y in range(height)
ScanOrder(w, h) == [i \in 1..(w*h) |-> <<(i-1) \div h, (i-1) % h>>]

\* the tuple neighs, in the order the code lists it
Neighs(p) ==
    << <<p[1],   p[2]+1>>, <<p[1]+1, p[2]+1>>, <<p[1]+1, p[2]>>,
       <<p[1]+1, p[2]-1>>, <<p[1],   p[2]-1>>, <<p[1]-1, p[2]-1>>,
       <<p[1]-1, p[2]>>,   <<p[1]-1, p[2]+1>> >>

InBounds(w, h, p) == p[1] >= 0 /\ p[1] < w /\ p[2] >= 0 /\ p[2] < h

\* neigh_values: out-of-bounds neighbours count as background
NeighValues(im, w, h, p) ==
    [i \in 1..8 |-> IF InBounds(w, h, Neighs(p)[i]) THEN im[Neighs(p)[i]] ELSE 255]

\* neigh_values[i-1] for i = 0 is Python's neigh_values[-1], the last entry
Segments(nv) ==
    Cardinality({i \in 1..8 : nv[IF i = 1 THEN 8 ELSE i-1] = 0 /\ nv[i] = 255})

\* (mutant) the line-end guard lets a pixel with one foreground neighbour go
ForegroundGuardWeak(nv) == Count(nv, 0) <= 0

\* line 636
ForegroundGuard(nv) == Count(nv, 0) <= 1

\* (mutant) the test without its connectivity guard
is_pixel_unneeded_no_segments(im, w, h, p) ==
    LET nv == NeighValues(im, w, h, p) IN
    IF ForegroundGuard(nv) THEN FALSE
    ELSE IF Count(nv, 255) <= 1 THEN FALSE
    ELSE TRUE

is_pixel_unneeded(im, w, h, p) ==
    LET nv == NeighValues(im, w, h, p) IN
    IF ForegroundGuard(nv) THEN FALSE
    ELSE IF Count(nv, 255) <= 1 THEN FALSE
    ELSE IF Segments(nv) >= 2 THEN FALSE
    ELSE TRUE

\* lines 280-287: the initial scan
InitialQueue(im, w, h) ==
    SelectSeq(ScanOrder(w, h),
              LAMBDA p : im[p] = 0 /\ is_pixel_unneeded(im, w, h, p))

\* (mutant) a neighbour is appended whether or not it is in the dictionary
EnqueuedAgain(im, w, h, dict, cr_pixel) ==
    SelectSeq(Neighs(cr_pixel),
              LAMBDA n : /\ InBounds(w, h, n)
                         /\ im[n] = 0
                         /\ is_pixel_unneeded(im, w, h, n))

\* (mutant) the neighbours of a removed pixel are not looked at again
EnqueuedNone(im, w, h, dict, cr_pixel) == <<>>

\* lines 305-316: the neighbours appended after cr_pixel was set to 255.
\* The eight neighbours are distinct, so the dictionary test of each one is
\* the test against the dictionary as it was before the for loop.
Enqueued(im, w, h, dict, cr_pixel) ==
    SelectSeq(Neighs(cr_pixel),
              LAMBDA n : /\ n \notin dict
                         /\ InBounds(w, h, n)
                         /\ im[n] = 0
                         /\ is_pixel_unneeded(im, w, h, n))

\* lines 318-322
Collected(im, w, h) == SelectSeq(ScanOrder(w, h), LAMBDA p : im[p] = 0)

\* Scenario S2 of the specification: 5x5, foreground the block 1..3 x 1..3
S2Image == [p \in Pixels(5, 5) |->
              IF p[1] \in 1..3 /\ p[2] \in 1..3 THEN 0 ELSE 255]

TraceInit ==
    /\ tpc = "start"
    /\ \/ /\ width = ImgW /\ height = ImgH
          /\ img \in [Pixels(ImgW, ImgH) -> {0, 255}]
       \/ /\ width = 5 /\ height = 5
          /\ img = S2Image
    /\ img0 = img
    /\ remove_queue = <<>>
    /\ remove_queue_dict = {}
    /\ removed = <<>>
    /\ point_list = <<>>

\* lines 277-287
TraceScan ==
    /\ tpc = "start"
    /\ remove_queue' = InitialQueue(img, width, height)
    /\ remove_queue_dict' = Range(remove_queue')
    /\ tpc' = "loop"
    /\ UNCHANGED <<width, height, img, img0, removed, point_list>>
    /\ UNCHANGED notTrace

\* lines 289-316: one iteration of the while loop
TraceStep ==
    /\ tpc = "loop"
    /\ Len(remove_queue) > 0
    /\ LET cr_pixel == Head(remove_queue)
           dict     == remove_queue_dict \ {cr_pixel}
       IN  IF is_pixel_unneeded(img, width, height, cr_pixel)
           THEN LET im2 == [img EXCEPT ![cr_pixel] = 255]
                    new == Enqueued(im2, width, height, dict, cr_pixel)
                IN  /\ img' = im2
                    /\ remove_queue' = Tail(remove_queue) \o new
                    /\ remove_queue_dict' = dict \cup Range(new)
                    /\ removed' = cr_pixel
           ELSE /\ img' = img
                /\ remove_queue' = Tail(remove_queue)
                /\ remove_queue_dict' = dict
                /\ removed' = <<>>
    /\ UNCHANGED <<tpc, width, height, img0, point_list>>
    /\ UNCHANGED notTrace

\* lines 318-323
TraceCollect ==
    /\ tpc = "loop"
    /\ Len(remove_queue) = 0
    /\ point_list' = Collected(img, width, height)
    /\ tpc' = "done"
    /\ UNCHANGED <<width, height, img, img0, remove_queue, remove_queue_dict,
                   removed>>
    /\ UNCHANGED notTrace

TraceNext == TraceScan \/ TraceStep \/ TraceCollect

InitTrace ==
    /\ TraceInit /\ PathsIdle /\ CompressIdle /\ HeightIdle /\ SplitIdle
    /\ FromIdle /\ CarveIdle

SpecTrace == InitTrace /\ [][TraceNext]_vars

\* from_image_trace is one sequential call: as long as the scan, the while
\* loop or the final collection has a next step, it is taken
SpecTraceFair == SpecTrace /\ WF_vars(TraceNext)

----------------------------------------------------------------------------
(* Properties of Points.from_image_trace *)

Foreground(im) == {p \in DOMAIN im : im[p] = 0}

Touching(p, q) ==
    /\ p # q
    /\ p[1] - q[1] \in {-1, 0, 1}
    /\ p[2] - q[2] \in {-1, 0, 1}

RECURSIVE Flood(_, _)
Flood(S, fg) ==
    LET T == S \cup {q \in fg : \E p \in S : Touching(p, q)}
    IN  IF T = S THEN S ELSE Flood(T, fg)

RECURSIVE CountComponents(_)
CountComponents(fg) ==
    IF fg = {} THEN 0
    ELSE LET p == CHOOSE q \in fg : TRUE
         IN  1 + CountComponents(fg \ Flood({p}, fg))

\* C1: in every state of the thinning (so after each single pixel removal and
\* in the final result) the image has as many 8-connected components of
\* foreground pixels as the input image had.
C1_ComponentsPreserved ==
    CountComponents(Foreground(img)) = CountComponents(Foreground(img0))

\* a pixel has just been removed from an image of at least two components
C1_Witness ==
    /\ removed # <<>>
    /\ img # img0
    /\ CountComponents(Foreground(img0)) >= 2

\* the foreground and background positions (1..8, cyclic) around pixel p,
\* out-of-bounds positions being background
FgAround(im, p) ==
    {i \in 1..8 : Neighs(p)[i] \in DOMAIN im /\ im[Neighs(p)[i]] = 0}

BgAround(im, p) == (1..8) \ FgAround(im, p)

Transitions(im, p) ==
    Cardinality({i \in FgAround(im, p) : (i % 8) + 1 \in BgAround(im, p)})

Removable(im, p) ==
    /\ Cardinality(FgAround(im, p)) >= 2
    /\ Cardinality(BgAround(im, p)) >= 2
    /\ Transitions(im, p) <= 1

Drained == tpc \in {"loop", "done"} /\ remove_queue = <<>>

\* C2: once the work queue has drained, no foreground pixel of the image is
\* removable: none has at least two foreground neighbours, at least two
\* background neighbours and at most one foreground-to-background transition
\* around its ring.
C2_NoRemovableLeft ==
    Drained => \A p \in Foreground(img) : ~Removable(img, p)

\* the queue has drained after removals, and foreground is left
C2_Witness ==
    /\ Drained
    /\ img # img0
    /\ Cardinality(Foreground(img)) >= 3

\* C3 as stated: thinning the 3x3 block of scenario S2 leaves exactly (2,2).
C3_Original ==
    (tpc = "done" /\ img0 = S2Image) => point_list = << <<2, 2>> >>

\* C3 (amended): thinning the 3x3 block of scenario S2 leaves exactly the two
\* points (2,2) and (3,2).
C3_BlockSkeleton ==
    (tpc = "done" /\ img0 = S2Image)
        => point_list = << <<2, 2>>, <<3, 2>> >>

C3_Witness == tpc = "done" /\ img0 = S2Image

\* no pixel is in the queue twice, and the dictionary holds the queue's pixels
QueueMatchesDict ==
    /\ \A i, j \in 1..Len(remove_queue) :
           i # j => remove_queue[i] # remove_queue[j]
    /\ Range(remove_queue) = remove_queue_dict

\* a step sets only foreground pixels to background and none back: each
\* pixel is set to background at most once
SetOnce ==
    /\ \A p \in DOMAIN img : img[p] = 255 => img'[p] = 255
    /\ img' # img => /\ removed' # <<>>
                     /\ img[removed'] = 0
                     /\ img' = [img EXCEPT ![removed'] = 255]

\* a step of the loop puts into the queue only neighbours of the pixel it
\* has just set to background
EnqueuedAfterRemoval ==
    tpc = "loop" =>
        \A p \in Range(remove_queue') \ Range(remove_queue) :
            /\ img' # img
            /\ Touching(p, removed')

\* C17: the thinning loop terminates on every image: the queue becomes empty
\* and the call returns; in every state no pixel is in the queue twice and
\* the queue and the dictionary hold the same pixels; a pixel is put into
\* the queue only by the initial scan or right after a neighbour of it was
\* set to background; and each pixel is set to background at most once.
C17_ThinningTerminates ==
    /\ <>(tpc = "done" /\ remove_queue = <<>>)
    /\ []QueueMatchesDict
    /\ [][SetOnce /\ EnqueuedAfterRemoval]_vars

\* the loop has returned after setting more pixels to background than the
\* initial scan had put into the queue: one of them was enqueued by the
\* removal of a neighbour
C17_Witness ==
    /\ tpc = "done"
    /\ width = ImgW
    /\ Cardinality(Foreground(img0)) - Cardinality(Foreground(img))
           > Len(InitialQueue(img0, width, height))

----------------------------------------------------------------------------
(* data_classes.py: Point, Path.has_connection, Path.from_points,           *)
(* Paths.from_points                                                        *)

PtsW == 3
PtsH == 3
MaxPoints == 6

Abs(n) == IF n < 0 THEN -n ELSE n

Last(s) == s[Len(s)]

\* (mutant) the test without "self != other"
is_neighbor_or_self(a, b) ==
    Abs(a[1] - b[1]) <= 1 /\ Abs(a[2] - b[2]) <= 1

\* Point.is_neighbor
is_neighbor(a, b) ==
    Abs(a[1] - b[1]) <= 1 /\ Abs(a[2] - b[2]) <= 1 /\ a # b

\* Point.is_adjacent
is_adjacent(a, b) ==
    \/ (Abs(a[1] - b[1]) = 1 /\ a[2] = b[2])
    \/ (a[1] = b[1] /\ Abs(a[2] - b[2]) = 1)

\* Path.has_connection: index i is 0-based in the code, (i+j) % len
PathHasConnection(pl, point_a, point_b, stride) ==
    \E i \in 1..Len(pl) : \E j \in 1..stride :
        LET k == ((i - 1 + j) % Len(pl)) + 1
        IN  \/ (pl[i] = point_a /\ pl[k] = point_b)
            \/ (pl[i] = point_b /\ pl[k] = point_a)

\* Paths.has_connection
PathsHasConnection(path_list, point_a, point_b, stride) ==
    \E n \in 1..Len(path_list) :
        PathHasConnection(path_list[n], point_a, point_b, stride)

\* lines 392-404: the points the for loop accepts, in the order of points
Candidates(pts, path, explored_paths) ==
    SelectSeq(pts,
        LAMBDA q : /\ is_neighbor(Last(path), q)
                   /\ q \notin Range(path)
                   /\ (explored_paths = None \/
                       ~PathsHasConnection(explored_paths, Last(path), q, 2)))

\* position in cands of the first point adjacent to last, 0 when there is none
FirstAdjacent(cands, last) ==
    IF \E i \in 1..Len(cands) : is_adjacent(last, cands[i])
    THEN CHOOSE i \in 1..Len(cands) :
            /\ is_adjacent(last, cands[i])
            /\ \A j \in 1..(i-1) : ~is_adjacent(last, cands[j])
    ELSE 0

\* lines 405-410: the list adjacents when the for loop ends; without
\* return_affected_points the loop breaks at the first adjacent point
Adjacents(cands, last, return_affected_points) ==
    LET all == SelectSeq(cands, LAMBDA q : is_adjacent(last, q))
    IN  IF return_affected_points \/ all = <<>> THEN all ELSE <<all[1]>>

\* lines 405-410: the list neighbors when the for loop ends
Neighbors(cands, last, return_affected_points) ==
    LET k == FirstAdjacent(cands, last)
    IN  IF return_affected_points \/ k = 0
        THEN SelectSeq(cands, LAMBDA q : ~is_adjacent(last, q))
        ELSE SubSeq(cands, 1, k - 1)

\* lines 429-430: the start point is appended when the walk has stopped next
\* to it
Closed(path, start_point) ==
    IF is_neighbor(Last(path), start_point)
    THEN Append(path, start_point)
    ELSE path

\* lines 389-430: the while loop, from the state of one iteration to the end
RECURSIVE Extend(_, _, _, _, _, _, _)
Extend(pts, start_point, explored_paths, return_affected_points, path, expandable, unexpandable) ==
    LET last      == Last(path)
        cands     == Candidates(pts, path, explored_paths)
        adjacents == Adjacents(cands, last, return_affected_points)
        neighbors == Neighbors(cands, last, return_affected_points)
        left      == Len(adjacents) + Len(neighbors) - 1
    IN  IF Len(adjacents) > 0 \/ Len(neighbors) > 0
        THEN Extend(pts, start_point, explored_paths, return_affected_points,
                 Append(path, IF Len(adjacents) > 0 THEN Last(adjacents)
                                                    ELSE Last(neighbors)),
                 IF return_affected_points /\ left > 0
                     THEN Append(expandable, last) ELSE expandable,
                 IF return_affected_points /\ left = 0
                     THEN Append(unexpandable, last) ELSE unexpandable)
        ELSE [path          |-> Closed(path, start_point),
              expandable    |-> expandable,
              unexpandable  |-> IF return_affected_points
                                THEN Append(unexpandable, last)
                                ELSE unexpandable]

\* Path.from_points.  The body never reads allow_loop.
PathFromPoints(pts, start_point, explored_paths, allow_loop, return_affected_points) ==
    Extend(pts, IF start_point = None THEN pts[1] ELSE start_point,
           explored_paths, return_affected_points,
           <<IF start_point = None THEN pts[1] ELSE start_point>>,
           <<>>, <<>>)

\* The point lists are those the image scans produce: distinct points in
\* column-major order.
PointLists ==
    {SelectSeq(ScanOrder(PtsW, PtsH), LAMBDA p : p \in S) :
        S \in {T \in SUBSET Pixels(PtsW, PtsH) : Cardinality(T) <= MaxPoints}}

PathsInit ==
    /\ ppc = "start"
    /\ points \in PointLists
    /\ min_path_length \in 1..3
    /\ point_i = 0
    /\ paths = <<>>
    /\ unexpandable_points = {}
    /\ result_paths = <<>>

\* lines 152-156
PathsStart ==
    /\ ppc = "start"
    /\ ppc' = IF min_path_length < 2 THEN "error" ELSE "walk"
    /\ point_i' = 1
    /\ UNCHANGED <<points, min_path_length, paths, unexpandable_points,
                   result_paths>>
    /\ UNCHANGED notPaths

\* lines 157-170: one iteration of the for loop over points
PathsWalk ==
    /\ ppc = "walk"
    /\ point_i <= Len(points)
    /\ LET point == points[point_i]
           r == PathFromPoints(points, point, paths, TRUE, TRUE)
       IN  IF point \in unexpandable_points
           THEN UNCHANGED <<paths, unexpandable_points>>
           ELSE /\ paths' = IF Len(r.path) > 1 THEN Append(paths, r.path)
                                               ELSE paths
                /\ unexpandable_points' =
                       unexpandable_points \cup Range(r.unexpandable)
    /\ point_i' = point_i + 1
    /\ UNCHANGED <<ppc, points, min_path_length, result_paths>>
    /\ UNCHANGED notPaths

\* lines 172-178
PathsFilter ==
    /\ ppc = "walk"
    /\ point_i > Len(points)
    /\ result_paths' = SelectSeq(paths, LAMBDA q : Len(q) >= min_path_length)
    /\ ppc' = "done"
    /\ UNCHANGED <<points, min_path_length, point_i, paths,
                   unexpandable_points>>
    /\ UNCHANGED notPaths

PathsNext == PathsStart \/ PathsWalk \/ PathsFilter

InitPaths ==
    /\ PathsInit /\ TraceIdle /\ CompressIdle /\ HeightIdle /\ SplitIdle
    /\ FromIdle /\ CarveIdle

SpecPaths == InitPaths /\ [][PathsNext]_vars

----------------------------------------------------------------------------
(* Properties of the path builder *)

\* the consecutive pairs of a path, as unordered pairs, one per position
Edges(path_list) ==
    UNION {{<<n, i>> : i \in 1..(Len(path_list[n]) - 1)} :
              n \in 1..Len(path_list)}

EdgeAt(path_list, e) == {path_list[e[1]][e[2]], path_list[e[1]][e[2] + 1]}

\* C4: no unordered pair of points is traced twice, in one path or in two,
\* the closing edge included.  (The code re-traces edges: the closing edge is
\* appended without looking at the path or at explored_paths.)
C4_NoEdgeReuse ==
    \A e, f \in Edges(paths) :
        e # f => EdgeAt(paths, e) # EdgeAt(paths, f)

\* C5: with min_path_length = 2 the returned Paths connects every two
\* neighbouring points of S within 2 positions.  (The code starts one walk
\* per point at most and leaves neighbours unconnected.)
C5_EveryNeighborConnected ==
    (ppc = "done" /\ min_path_length = 2) =>
        \A i, j \in 1..Len(points) :
            is_neighbor(points[i], points[j]) =>
                PathsHasConnection(result_paths, points[i], points[j], 2)

AllPaths == Range(paths) \cup Range(result_paths)

\* C6: consecutive vertices of every path built, the closing pair included,
\* are distinct points at most 1 apart in x and in y.
C6_Adjacency ==
    \A q \in AllPaths : \A i \in 1..(Len(q) - 1) :
        /\ q[i] # q[i+1]
        /\ q[i][1] - q[i+1][1] \in {-1, 0, 1}
        /\ q[i][2] - q[i+1][2] \in {-1, 0, 1}

\* a closed path of at least three points has been returned
C6_Witness ==
    /\ ppc = "done"
    /\ \E q \in Range(result_paths) : Len(q) >= 4 /\ q[1] = Last(q)

----------------------------------------------------------------------------
(* data_classes.py: Path.from_points called on its own, without explored    *)
(* paths                                                                    *)

\* the call: any point list of an image scan, the default start point or one
\* of the points, either value of the two flags
FromInit ==
    /\ fpc = "call"
    /\ arg_points \in PointLists
    /\ arg_start_point \in {<<>>} \cup Range(arg_points)
    /\ arg_allow_loop \in BOOLEAN
    /\ arg_return_affected \in BOOLEAN
    /\ ret_path = <<>>

\* lines 381-439; list(points)[0] of an empty Points is an IndexError
FromCall ==
    /\ fpc = "call"
    /\ IF arg_start_point = <<>> /\ arg_points = <<>>
       THEN /\ fpc' = "error"
            /\ ret_path' = <<>>
       ELSE /\ fpc' = "done"
            /\ ret_path' = PathFromPoints(arg_points,
                                IF arg_start_point = <<>> THEN None
                                                          ELSE arg_start_point,
                                None, arg_allow_loop, arg_return_affected).path
    /\ UNCHANGED <<arg_points, arg_start_point, arg_allow_loop,
                   arg_return_affected>>
    /\ UNCHANGED notFrom

FromNext == FromCall

InitFrom ==
    /\ FromInit /\ TraceIdle /\ PathsIdle /\ CompressIdle /\ HeightIdle
    /\ SplitIdle /\ CarveIdle

SpecFrom == InitFrom /\ [][FromNext]_vars

----------------------------------------------------------------------------
(* Properties of Path.from_points *)

\* C15: a loop is closed only when allow_loop is True.  With allow_loop False
\* the returned path has no repeated vertex; with allow_loop True the start
\* point is the appended last vertex exactly when the walk stopped at an
\* 8-neighbour of the start point.  (The code never reads allow_loop: the
\* start point is appended whatever its value.)
C15_LoopOnlyWhenAllowed ==
    fpc = "done" =>
        LET closed == Len(ret_path) >= 2 /\ Last(ret_path) = ret_path[1]
            walk   == IF closed THEN SubSeq(ret_path, 1, Len(ret_path) - 1)
                                ELSE ret_path
        IN  /\ ~arg_allow_loop =>
                   \A i, j \in 1..Len(ret_path) :
                       i # j => ret_path[i] # ret_path[j]
            /\ arg_allow_loop =>
                   (closed <=> is_neighbor(Last(walk), ret_path[1]))

----------------------------------------------------------------------------
(* data_classes.py: Path.compress *)

CmpW == 3
CmpH == 3
MaxPathLen == 4
MaxDist == 2

\* self._point_list[k], k counted from 0 as in the code
At(pl, k) == pl[k + 1]

\* del self._point_list[k], k counted from 0
Del(pl, k) == SubSeq(pl, 1, k) \o SubSeq(pl, k + 2, Len(pl))

\* lines 449-450: the line through the vertex before and the vertex after
LineA(pl, po) == At(pl, po - 1)[2] - At(pl, po + 1)[2]

LineB(pl, po) == At(pl, po + 1)[1] - At(pl, po - 1)[1]

\* (mutant) the constant term with the wrong sign
LineCPlus(pl, po) ==
    LineA(pl, po) * At(pl, po - 1)[1] + LineB(pl, po) * At(pl, po - 1)[2]

\* lines 451-454
LineC(pl, po) ==
    -(LineA(pl, po) * At(pl, po - 1)[1] + LineB(pl, po) * At(pl, po - 1)[2])

\* lines 456-473: dist_sqr > max_dist_sqr for point_check.  The code divides
\* the squared numerator by a**2 + b**2 in floating point; for the small
\* integers here that is the exact comparison n**2 > d**2 * (a**2 + b**2).
TooFar(pl, po, point_check, d) ==
    LET a == LineA(pl, po)
        b == LineB(pl, po)
        c == LineC(pl, po)
        n == a * point_check[1] + b * point_check[2] + c
    IN  IF a = 0 /\ b = 0
        THEN (At(pl, po - 1)[1] - point_check[1]) * (At(pl, po - 1)[1] - point_check[1])
           + (At(pl, po - 1)[2] - point_check[2]) * (At(pl, po - 1)[2] - point_check[2])
               > d * d
        ELSE n * n > d * d * (a * a + b * b)

\* (mutant) only the vertex under the cursor is kept for checking
SegmentOnlyCurrent(segment, p) == <<p>>

\* line 447
SegmentAppend(segment, p) == Append(segment, p)

\* the paths the path builder can hand over: every step goes to a neighbour
RECURSIVE StepPaths(_)
StepPaths(n) ==
    IF n = 1 THEN {<<p>> : p \in Pixels(CmpW, CmpH)}
    ELSE LET shorter == StepPaths(n - 1)
             longest == {q \in shorter : Len(q) = n - 1}
         IN  shorter \cup
             {Append(x[1], x[2]) :
                 x \in {y \in longest \X Pixels(CmpW, CmpH) :
                           is_neighbor(Last(y[1]), y[2])}}

\* Scenario S4 of the specification
S4Path == << <<0, 0>>, <<1, 0>>, <<2, 0>>, <<3, 0>>, <<3, 1>>, <<3, 2>> >>

CompressInit ==
    /\ cpc = "loop"
    /\ input_path \in StepPaths(MaxPathLen) \cup {S4Path}
    /\ max_dist \in 0..MaxDist
    /\ path_point_list = input_path
    /\ kept = [i \in 1..Len(input_path) |-> i]
    /\ point_on = 1
    /\ segment_removing = <<>>

\* lines 445-479: one iteration of the while loop
CompressStep ==
    /\ cpc = "loop"
    /\ point_on < Len(path_point_list) - 1
    /\ LET segment == SegmentAppend(segment_removing,
                                    At(path_point_list, point_on))
           remove_safe ==
               \A i \in 1..Len(segment) :
                   ~TooFar(path_point_list, point_on, segment[i], max_dist)
       IN  IF remove_safe
           THEN /\ path_point_list' = Del(path_point_list, point_on)
                /\ kept' = Del(kept, point_on)
                /\ point_on' = point_on
                /\ segment_removing' = segment
           ELSE /\ path_point_list' = path_point_list
                /\ kept' = kept
                /\ point_on' = point_on + 1
                /\ segment_removing' = <<>>
    /\ UNCHANGED <<cpc, input_path, max_dist>>
    /\ UNCHANGED notCompress

\* line 445: the loop condition fails and compress returns
CompressReturn ==
    /\ cpc = "loop"
    /\ ~(point_on < Len(path_point_list) - 1)
    /\ cpc' = "done"
    /\ UNCHANGED <<input_path, max_dist, path_point_list, kept, point_on,
                   segment_removing>>
    /\ UNCHANGED notCompress

CompressNext == CompressStep \/ CompressReturn

InitCompress ==
    /\ CompressInit /\ TraceIdle /\ PathsIdle /\ HeightIdle /\ SplitIdle
    /\ FromIdle /\ CarveIdle

SpecCompress == InitCompress /\ [][CompressNext]_vars

----------------------------------------------------------------------------
(* Properties of Path.compress *)

Sq(n) == n * n

\* twice the signed area of the triangle a, b, v
Cross(a, b, v) ==
    (b[1] - a[1]) * (v[2] - a[2]) - (b[2] - a[2]) * (v[1] - a[1])

\* the squared distance from v to the line through a and b (to the point a
\* when a = b) is at most d squared
Within(a, b, v, d) ==
    IF a = b
    THEN Sq(v[1] - a[1]) + Sq(v[2] - a[2]) <= Sq(d)
    ELSE Sq(Cross(a, b, v)) <= Sq(d) * (Sq(b[1] - a[1]) + Sq(b[2] - a[2]))

\* kept names the vertices of the input that are still in the path
KeptFaithful ==
    /\ Len(kept) = Len(path_point_list)
    /\ \A k \in 1..Len(kept) :
           /\ kept[k] \in 1..Len(input_path)
           /\ path_point_list[k] = input_path[kept[k]]
    /\ \A k \in 1..(Len(kept) - 1) : kept[k] < kept[k+1]

\* C7: after compress, every removed vertex is within max_dist of the line
\* through the two retained vertices that span its place in the input.
C7_CompressionBound ==
    cpc = "done" =>
        /\ KeptFaithful
        /\ \A k \in 1..(Len(kept) - 1) :
               \A j \in (kept[k] + 1)..(kept[k+1] - 1) :
                   Within(path_point_list[k], path_point_list[k+1],
                          input_path[j], max_dist)

\* compress has returned after removing a vertex that is off the line of
\* the retained vertices around it
C7_Witness ==
    /\ cpc = "done"
    /\ max_dist > 0
    /\ \E k \in 1..(Len(kept) - 1) :
           \E j \in (kept[k] + 1)..(kept[k+1] - 1) :
               /\ path_point_list[k] # path_point_list[k+1]
               /\ Cross(path_point_list[k], path_point_list[k+1],
                        input_path[j]) # 0

\* C8: compress only deletes interior vertices (the vertex count never
\* grows, first and last vertex and the order of the kept ones stay), with
\* max_dist = 0 it keeps every interior vertex that is not collinear with
\* its two neighbours in the input, and it turns the path of scenario S4
\* into [(0,0),(3,0),(3,2)].
C8_Monotonicity ==
    /\ KeptFaithful
    /\ Len(path_point_list) <= Len(input_path)
    /\ Len(input_path) >= 1 => kept[1] = 1 /\ Last(kept) = Len(input_path)
    /\ (cpc = "done" /\ max_dist = 0) =>
           \A j \in 2..(Len(input_path) - 1) :
               Cross(input_path[j-1], input_path[j], input_path[j+1]) # 0
                   => j \in Range(kept)
    /\ (cpc = "done" /\ max_dist = 0 /\ input_path = S4Path) =>
           path_point_list = << <<0, 0>>, <<3, 0>>, <<3, 2>> >>

\* compress with max_dist = 0 has returned, having removed a collinear
\* vertex and kept a corner
C8_Witness ==
    /\ cpc = "done"
    /\ max_dist = 0
    /\ Len(path_point_list) < Len(input_path)
    /\ \E j \in 2..(Len(input_path) - 1) :
           Cross(input_path[j-1], input_path[j], input_path[j+1]) # 0

----------------------------------------------------------------------------
(* data_classes.py: Heightmap *)

HmW == 2
HmH == 2
MaxAsked == 2

\* heights are color/255; three levels stand for them
HeightLevels == 0..2

\* get_row: the pairs (x, height) of one row, in the order of self._columns
GetRow(row) ==
    LET xs == SelectSeq(columns, LAMBDA x : <<x, row>> \in DOMAIN heights)
    IN  [i \in 1..Len(xs) |-> <<xs[i], heights[<<xs[i], row>>]>>]

\* get_column: the pairs (y, height) of one column, in the order of self._rows
GetColumn(column) ==
    LET ys == SelectSeq(rows, LAMBDA y : <<column, y>> \in DOMAIN heights)
    IN  [i \in 1..Len(ys) |-> <<ys[i], heights[<<column, ys[i]>>]>>]

\* sum(list_of_points, [])
RECURSIVE Concat(_)
Concat(lists) ==
    IF lists = <<>> THEN <<>> ELSE Head(lists) \o Concat(Tail(lists))

\* the order of Python tuples (coordinate, height)
TupleLess(p, q) == p[1] < q[1] \/ (p[1] = q[1] /\ p[2] < q[2])

\* points.sort(): equal tuples are indistinguishable, so any sorting agrees
RECURSIVE Sorted(_)
Sorted(pts) ==
    IF pts = <<>> THEN <<>>
    ELSE LET rest == Sorted(Tail(pts))
             before == SelectSeq(rest, LAMBDA q : TupleLess(q, Head(pts)))
             after == SelectSeq(rest, LAMBDA q : ~TupleLess(q, Head(pts)))
         IN  before \o <<Head(pts)>> \o after

\* (mutant) the later of two entries of one coordinate is deleted
DropNext(pts, cr_point) == Del(pts, cr_point + 1)

\* line 130: del points[cr_point]
DropAt(pts, cr_point) == Del(pts, cr_point)

\* lines 128-132: the while loop from position cr_point (0-based) on
RECURSIVE Collapse(_, _)
Collapse(pts, cr_point) ==
    IF cr_point < Len(pts) - 1
    THEN IF At(pts, cr_point)[1] = At(pts, cr_point + 1)[1]
         THEN Collapse(DropAt(pts, cr_point), cr_point)
         ELSE Collapse(pts, cr_point + 1)
    ELSE pts

\* Heightmap._maximize_points
MaximizePoints(list_of_points) == Collapse(Sorted(Concat(list_of_points)), 0)

\* the non-empty lists of at most MaxAsked entries of a list
ListsOver(lst) ==
    UNION {[1..n -> Range(lst)] : n \in 1..MaxAsked}

\* Heightmap.__init__ on a HmH x HmW list of lists
HeightInit ==
    /\ hpc = "start"
    /\ rows = [i \in 1..HmH |-> i - 1]
    /\ columns = [i \in 1..HmW |-> i - 1]
    /\ heights \in [Pixels(HmW, HmH) -> HeightLevels]
    /\ lines_asked = <<>>
    /\ max_points = <<>>

\* Heightmap.get_rows_max
GetRowsMax ==
    /\ hpc = "start"
    /\ \E asked \in ListsOver(rows) :
           /\ lines_asked' = asked
           /\ max_points' =
                  MaximizePoints([i \in 1..Len(asked) |-> GetRow(asked[i])])
    /\ hpc' = "rows_max"
    /\ UNCHANGED <<rows, columns, heights>>
    /\ UNCHANGED notHeight

\* Heightmap.get_columns_max
GetColumnsMax ==
    /\ hpc = "start"
    /\ \E asked \in ListsOver(columns) :
           /\ lines_asked' = asked
           /\ max_points' =
                  MaximizePoints([i \in 1..Len(asked) |-> GetColumn(asked[i])])
    /\ hpc' = "columns_max"
    /\ UNCHANGED <<rows, columns, heights>>
    /\ UNCHANGED notHeight

HeightNext == GetRowsMax \/ GetColumnsMax

InitHeight ==
    /\ HeightInit /\ TraceIdle /\ PathsIdle /\ CompressIdle /\ SplitIdle
    /\ FromIdle /\ CarveIdle

SpecHeight == InitHeight /\ [][HeightNext]_vars

----------------------------------------------------------------------------
(* Properties of Heightmap *)

Maximum(S) == CHOOSE m \in S : \A n \in S : n <= m

\* C9: get_rows_max returns one pair (x, h) per column, x ascending, h the
\* maximum of H[x, y] over the rows asked; get_columns_max likewise.
C9_TrueMaximum ==
    /\ hpc = "rows_max" =>
           /\ Len(max_points) = HmW
           /\ \A k \in 1..Len(max_points) :
                  /\ max_points[k][1] = k - 1
                  /\ max_points[k][2] =
                         Maximum({heights[<<k - 1, y>>] : y \in Range(lines_asked)})
    /\ hpc = "columns_max" =>
           /\ Len(max_points) = HmH
           /\ \A k \in 1..Len(max_points) :
                  /\ max_points[k][1] = k - 1
                  /\ max_points[k][2] =
                         Maximum({heights[<<x, k - 1>>] : x \in Range(lines_asked)})

\* rows were asked whose heights differ in a column, the first asked row
\* holding the larger one
C9_Witness ==
    /\ hpc = "rows_max"
    /\ Len(lines_asked) = 2
    /\ heights[<<0, lines_asked[1]>>] > heights[<<0, lines_asked[2]>>]
    /\ heights[<<1, lines_asked[1]>>] < heights[<<1, lines_asked[2]>>]

----------------------------------------------------------------------------
(* generator.py: Generator._split_points *)
(* Coordinates and the bit diameter are whole numbers of one length unit;   *)
(* x > bit_size/2 is then 2*x > bit_size.                                   *)

MaxCoord == 5
MaxBit == 4

\* line 217: point - cr_start > self._bit_size/2
PastHalf(point, start, bit) == 2 * (point - start) > bit

\* line 219: point - cr_start > self._bit_size
PastBit(point, start, bit) == point - start > bit

\* (mutant) the new section starts with the last point of the one before
SectionSharing(section, point) == <<Last(section), point>>

\* lines 223 and 225: the section after it was closed and point appended
SectionAfterClose(section, point) == <<point>>

\* the strictly increasing, non-empty coordinate lists over 0..MaxCoord
Increasing(S) == SelectSeq([i \in 1..(MaxCoord + 1) |-> i - 1], LAMBDA c : c \in S)

CoordinateLists == {Increasing(S) : S \in (SUBSET (0..MaxCoord)) \ {{}}}

\* cr_bit_pos is None or a coordinate: the empty list or a list of one
NoBitPos == <<>>

\* lines 211-215
SplitInit ==
    /\ spc = "loop"
    /\ split_points \in CoordinateLists
    /\ bit_size \in 1..MaxBit
    /\ split_i = 1
    /\ cover_points = <<>>
    /\ bit_pos = <<>>
    /\ cr_cover_points = <<>>
    /\ cr_bit_pos = NoBitPos
    /\ cr_start = split_points[1]

\* lines 216-225: one iteration of the for loop
SplitStep ==
    /\ spc = "loop"
    /\ split_i <= Len(split_points)
    /\ LET point == split_points[split_i]
           probe == IF /\ PastHalf(point, cr_start, bit_size)
                       /\ cr_bit_pos = NoBitPos
                    THEN <<Last(cr_cover_points)>>
                    ELSE cr_bit_pos
       IN  IF PastBit(point, cr_start, bit_size)
           THEN /\ cr_start' = Last(cr_cover_points)
                /\ cover_points' = Append(cover_points, cr_cover_points)
                /\ bit_pos' = Append(bit_pos, probe[1])
                /\ cr_cover_points' = SectionAfterClose(cr_cover_points, point)
                /\ cr_bit_pos' = NoBitPos
           ELSE /\ cr_cover_points' = Append(cr_cover_points, point)
                /\ cr_bit_pos' = probe
                /\ UNCHANGED <<cr_start, cover_points, bit_pos>>
    /\ split_i' = split_i + 1
    /\ UNCHANGED <<spc, split_points, bit_size>>
    /\ UNCHANGED notSplit

\* lines 226-230
SplitReturn ==
    /\ spc = "loop"
    /\ split_i > Len(split_points)
    /\ cr_bit_pos' = IF cr_bit_pos = NoBitPos THEN <<Last(cr_cover_points)>>
                                              ELSE cr_bit_pos
    /\ cover_points' = Append(cover_points, cr_cover_points)
    /\ bit_pos' = Append(bit_pos, cr_bit_pos'[1])
    /\ spc' = "done"
    /\ UNCHANGED <<split_points, bit_size, split_i, cr_cover_points, cr_start>>
    /\ UNCHANGED notSplit

SplitNext == SplitStep \/ SplitReturn

InitSplit ==
    /\ SplitInit /\ TraceIdle /\ PathsIdle /\ CompressIdle /\ HeightIdle
    /\ FromIdle /\ CarveIdle

SpecSplit == InitSplit /\ [][SplitNext]_vars

----------------------------------------------------------------------------
(* Properties of Generator._split_points *)

\* Scenario S5 of the specification
S5Input == split_points = <<0, 1, 2, 3, 4, 5>> /\ bit_size = 2

\* C10 as stated: successive bands share a sample (the last coordinate of a
\* band is the first of the next), and scenario S5 gives the bands
\* [[0,1,2],[2,3,4],[4,5]] with the probes [1,3,5].
C10_Original ==
    spc = "done" =>
        /\ \A i \in 1..(Len(cover_points) - 1) :
               Last(cover_points[i]) = cover_points[i+1][1]
        /\ S5Input =>
               /\ cover_points = << <<0, 1, 2>>, <<2, 3, 4>>, <<4, 5>> >>
               /\ bit_pos = <<1, 3, 5>>

\* C10 (amended): the bands share no sample: they are non-empty, in order
\* they make up the coordinate list, so a band starts with the coordinate
\* that follows the last one of the band before; scenario S5 gives the
\* bands [[0,1,2],[3,4],[5]] with the probes [1,3,5].
C10_BandsPartition ==
    spc = "done" =>
        /\ Concat(cover_points) = split_points
        /\ \A i \in 1..Len(cover_points) : cover_points[i] # <<>>
        /\ \A i \in 1..(Len(cover_points) - 1) :
               Last(cover_points[i]) < cover_points[i+1][1]
        /\ S5Input =>
               /\ cover_points = << <<0, 1, 2>>, <<3, 4>>, <<5>> >>
               /\ bit_pos = <<1, 3, 5>>

\* scenario S5 has been split, into more than one band
C10_Witness ==
    /\ spc = "done"
    /\ S5Input
    /\ Len(cover_points) >= 2

\* C11: the bit placed at the probe of a band covers the whole band: the
\* probe is a coordinate of its band and every coordinate of the band is at
\* most half the bit diameter away from it.  (The code closes a band at
\* cr_start + bit_size but fixes the probe at the last coordinate within
\* cr_start + bit_size/2: the far end of a band can be a whole diameter away.)
C11_ProbeCoversBand ==
    spc = "done" =>
        \A i \in 1..Len(cover_points) :
            /\ bit_pos[i] \in Range(cover_points[i])
            /\ \A c \in Range(cover_points[i]) :
                   2 * Abs(c - bit_pos[i]) <= bit_size

----------------------------------------------------------------------------
(* generator.py: Generator.carve_paths, carve_path, _carve_heightmap_pass   *)
(* Lengths are whole numbers and the bit diameter is even, so that          *)
(* bit_size/2, pixel*mm_ratio and the rounding to three decimals are exact. *)
(* move_code is the list of its lines; a line is a record of its command    *)
(* word and its fields, and "Z-{depth}" is the field Z with value -depth.   *)

HOVER_HEIGHT == 1
VERTICAL_SPEED == 250
HORIZONTAL_SPEED == 750

MaxDepthArg == 3
MaxMoveDist == 2
MaxVerts == 3
MaxPaths == 2
MaxBands == 3
MaxSamples == 2

\* the values of mm_ratio and bit_size a Generator is constructed with:
\* __init__ stores whatever it is given
MmRatios == {0, 1, 2}
BitSizes == {0, 2, 4}

\* the frames the interpreter allows before it raises RecursionError: more
\* than any call below needs when the bit size is positive
RecursionLimit == MaxDepthArg + 2

\* (mutant) the passes step by the whole bit diameter
HalfWhole(b) == b

\* self._bit_size/2
Half(b) == b \div 2

\* _get_mm_pos of a number
GetMm(d) == d * mm_ratio

\* _get_mm_pos of a tuple
GetMmPos(pixel_pos) == <<GetMm(pixel_pos[1]), GetMm(pixel_pos[2])>>

\* _is_move_far
is_move_far(pos_a, pos_b) ==
    (pos_a[1] - pos_b[1]) * (pos_a[1] - pos_b[1])
      + (pos_a[2] - pos_b[2]) * (pos_a[2] - pos_b[2])
        >= min_move_dist * min_move_dist

\* "G0 Z{hover_height}"
Hover == [op |-> "G0", Z |-> HOVER_HEIGHT]

\* "G0 X{x} Y{y}"
Rapid(pos) == [op |-> "G0", X |-> pos[1], Y |-> pos[2]]

\* "G1 Z-{depth} F{speed}"
Plunge(depth) == [op |-> "G1", Z |-> -depth, F |-> VERTICAL_SPEED]

\* "G1 F{speed}"
Feed == [op |-> "G1", F |-> HORIZONTAL_SPEED]

\* "G1 X{x} Y{y}"
Cut(pos) == [op |-> "G1", X |-> pos[1], Y |-> pos[2]]

\* lines 131-137: the for loop of carve_path from its k-th point on
RECURSIVE CutLoop(_, _, _, _)
CutLoop(path, k, last_pos, path_code) ==
    IF k > Len(path)
    THEN [path_code |-> path_code, last_pos |-> last_pos]
    ELSE LET cur_pos == GetMmPos(path[k])
         IN  IF is_move_far(last_pos, cur_pos)
             THEN CutLoop(path, k + 1, cur_pos, Append(path_code, Cut(cur_pos)))
             ELSE CutLoop(path, k + 1, last_pos, path_code)

\* (mutant) the last vertex is not emitted after the loop
FinalCutNone(last_pos, cur_pos) == <<>>

\* lines 138-141
FinalCut(last_pos, cur_pos) ==
    IF last_pos # cur_pos THEN <<Cut(cur_pos)>> ELSE <<>>

\* lines 121-144: path_code of one carve_path call on a non-empty path
PathCode(path, depth) ==
    LET last_pos == GetMmPos(path[1])
        r == CutLoop(path, 1, last_pos,
                     <<Hover, Rapid(last_pos), Plunge(depth), Feed>>)
    IN  r.path_code \o FinalCut(r.last_pos, GetMmPos(Last(path))) \o <<Hover>>

\* "G0 {cross_dir}{cross_pos} {carve_dir}{carve_start}"
RapidAxis(cross_dir, cross_pos, carve_dir, carve_start) ==
    IF carve_dir = "X"
    THEN [op |-> "G0", X |-> carve_start, Y |-> cross_pos]
    ELSE [op |-> "G0", X |-> cross_pos, Y |-> carve_start]

\* "G1 {carve_dir}{carve_pos} Z-{depth}"
CutAxis(carve_dir, carve_pos, depth) ==
    IF carve_dir = "X"
    THEN [op |-> "G1", X |-> carve_pos, Z |-> -depth]
    ELSE [op |-> "G1", Y |-> carve_pos, Z |-> -depth]

\* list(reversed(line))
Reversed(line) == [j \in 1..Len(line) |-> line[Len(line) + 1 - j]]

\* lines 186-193: last_pos stays line[0][0] for the whole line
LineCode(carve_dir, line) ==
    LET far == SelectSeq(line,
                   LAMBDA s : is_move_far(<<0, line[1][1]>>, <<0, s[1]>>))
    IN  [j \in 1..Len(far) |-> CutAxis(carve_dir, far[j][1], far[j][2])]

\* (mutant) the direction is not flipped after a band
ReverseKept(reverse) == reverse

\* line 198
ReverseFlipped(reverse) == ~reverse

\* (mutant) the bit is not lifted at the end of a band
BandCodeLowered(carve_dir, given_line, cross_dir, cross_pos, reverse) ==
    LET line == IF reverse THEN Reversed(given_line) ELSE given_line
    IN  <<RapidAxis(cross_dir, cross_pos, carve_dir, line[1][1]),
          Plunge(line[1][2]), Feed>>
          \o LineCode(carve_dir, line)

\* lines 172-197: the code of one band
BandCode(carve_dir, given_line, cross_dir, cross_pos, reverse) ==
    LET line == IF reverse THEN Reversed(given_line) ELSE given_line
    IN  <<RapidAxis(cross_dir, cross_pos, carve_dir, line[1][1]),
          Plunge(line[1][2]), Feed>>
          \o LineCode(carve_dir, line) \o <<Hover>>

\* lines 169-198: the for loop over zip(cross_direction_points,
\* carve_direction_points) from its b-th pair on
RECURSIVE PassBands(_, _, _, _, _, _)
PassBands(carve_dir, lines, cross_dir, cross, b, reverse) ==
    IF b > Len(cross) \/ b > Len(lines)
    THEN <<>>
    ELSE BandCode(carve_dir, lines[b], cross_dir, cross[b], reverse)
           \o PassBands(carve_dir, lines, cross_dir, cross, b + 1,
                        ReverseFlipped(reverse))

\* lines 165-198: path_code of one _carve_heightmap_pass call
PassCode(carve_direction, carve_direction_points, cross_direction, cross_direction_points) ==
    <<Hover>> \o PassBands(carve_direction, carve_direction_points,
                           cross_direction, cross_direction_points, 1, FALSE)

\* the lists of at most n elements of S
ListsUpTo(S, n) == UNION {[1..m -> S] : m \in 0..n}

\* the pixels the paths carved go through
CarvePoints == {<<0, 0>>, <<1, 0>>, <<1, 1>>}

\* the Path objects handed to carve_path: any list of points, the empty one
\* included
CarvePathArgs == ListsUpTo(CarvePoints, MaxVerts)

\* the Paths objects handed to carve_paths: lists of these two paths
CarvePathsArgs ==
    ListsUpTo({<< <<0, 0>>, <<1, 0>> >>, << <<1, 0>>, <<1, 1>>, <<0, 0>> >>},
              MaxPaths)

\* the depths of the samples of a heightmap line
PassDepths == {1, 2}

\* carve_direction_points as carve_heigtmap builds it: one line per band, a
\* line is the list of (position in mm, depth) of the ns samples
PassLines(nb, ns) ==
    {[b \in 1..nb |-> [j \in 1..ns |-> <<GetMm(j - 1), d[b][j]>>]] :
        d \in [1..nb -> [1..ns -> PassDepths]]}

\* cross_direction_points: one position in mm per band
CrossPoints(nb) == [b \in 1..nb |-> GetMm(b - 1)]

\* the arguments of _carve_heightmap_pass in carve_heigtmap, lines 69-72 and
\* 96-99
PassArgs ==
    UNION {{[carve_direction        |-> dir,
             carve_direction_points |-> lines,
             cross_direction        |-> IF dir = "X" THEN "Y" ELSE "X",
             cross_direction_points |-> CrossPoints(nb)] :
               lines \in PassLines(nb, ns), dir \in {"X", "Y"}} :
           nb \in 1..MaxBands, ns \in 1..MaxSamples}

\* a call in progress
Frame(fn, arg, depth, single_pass) ==
    [fn |-> fn, arg |-> arg, depth |-> depth, single_pass |-> single_pass,
     pc |-> "entry", i |-> 1]

Top == stack[Len(stack)]

\* the stack with the fields pc and i of the innermost call changed
SetTop(pc, i) ==
    [stack EXCEPT ![Len(stack)] = [@ EXCEPT !.pc = pc, !.i = i]]

\* the stack after the innermost call returned
Returned == SubSeq(stack, 1, Len(stack) - 1)

\* __init__ (lines 18-30) and the call made on the new Generator
CarveInit ==
    /\ gpc = "run"
    /\ mm_ratio \in MmRatios
    /\ gen_bit_size \in BitSizes
    /\ min_move_dist \in 0..MaxMoveDist
    /\ move_code = <<>>
    /\ \/ /\ call \in [fn : {"carve_path"}, arg : CarvePathArgs,
                      depth : 1..MaxDepthArg, single_pass : BOOLEAN]
       \/ /\ call \in [fn : {"carve_paths"}, arg : CarvePathsArgs,
                      depth : 1..MaxDepthArg, single_pass : BOOLEAN]
       \/ /\ call \in [fn : {"_carve_heightmap_pass"}, arg : PassArgs,
                      depth : {0}, single_pass : {TRUE}]
    /\ stack = <<Frame(call.fn, call.arg, call.depth, call.single_pass)>>

\* where a call leaves the Generator: back in its caller, or done
AfterReturn(new_stack) == IF new_stack = <<>> THEN "done" ELSE "run"

\* lines 107-108 and 118-119: the test for the shallower pass and the
\* recursive call; a call beyond the interpreter's limit raises
\* RecursionError, which ends the user's call
Recurse(next_pc) ==
    IF Top.depth > Half(gen_bit_size) /\ ~Top.single_pass
    THEN IF Len(stack) < RecursionLimit
         THEN /\ stack' = Append(SetTop(next_pc, 1),
                              Frame(Top.fn, Top.arg,
                                    Top.depth - Half(gen_bit_size), FALSE))
              /\ gpc' = "run"
         ELSE /\ stack' = <<>>
              /\ gpc' = "error"
    ELSE /\ stack' = SetTop(next_pc, 1)
         /\ gpc' = "run"

\* lines 107-108
CarvePathsEnter ==
    /\ gpc = "run"
    /\ Top.fn = "carve_paths" /\ Top.pc = "entry"
    /\ Recurse("for")
    /\ UNCHANGED <<mm_ratio, min_move_dist, gen_bit_size, move_code, call>>
    /\ UNCHANGED notCarve

\* lines 109-110: one iteration of the for loop, up to the call of carve_path
CarvePathsFor ==
    /\ gpc = "run"
    /\ Top.fn = "carve_paths" /\ Top.pc = "for"
    /\ Top.i <= Len(Top.arg)
    /\ IF Len(stack) < RecursionLimit
       THEN /\ stack' = Append(SetTop("for", Top.i + 1),
                            Frame("carve_path", Top.arg[Top.i], Top.depth,
                                  TRUE))
            /\ gpc' = "run"
       ELSE /\ stack' = <<>>
            /\ gpc' = "error"
    /\ UNCHANGED <<mm_ratio, min_move_dist, gen_bit_size, move_code, call>>
    /\ UNCHANGED notCarve

\* line 109: the for loop is over, carve_paths returns
CarvePathsReturn ==
    /\ gpc = "run"
    /\ Top.fn = "carve_paths" /\ Top.pc = "for"
    /\ Top.i > Len(Top.arg)
    /\ stack' = Returned
    /\ gpc' = AfterReturn(stack')
    /\ UNCHANGED <<mm_ratio, min_move_dist, gen_bit_size, move_code, call>>
    /\ UNCHANGED notCarve

\* lines 118-119
CarvePathEnter ==
    /\ gpc = "run"
    /\ Top.fn = "carve_path" /\ Top.pc = "entry"
    /\ Recurse("body")
    /\ UNCHANGED <<mm_ratio, min_move_dist, gen_bit_size, move_code, call>>
    /\ UNCHANGED notCarve

\* lines 121-146; get_first_point of an empty Path is an IndexError
CarvePathBody ==
    /\ gpc = "run"
    /\ Top.fn = "carve_path" /\ Top.pc = "body"
    /\ IF Top.arg = <<>>
       THEN /\ stack' = <<>>
            /\ gpc' = "error"
            /\ UNCHANGED move_code
       ELSE /\ move_code' = move_code \o PathCode(Top.arg, Top.depth)
            /\ stack' = Returned
            /\ gpc' = AfterReturn(stack')
    /\ UNCHANGED <<mm_ratio, min_move_dist, gen_bit_size, call>>
    /\ UNCHANGED notCarve

\* lines 165-200
CarveHeightmapPass ==
    /\ gpc = "run"
    /\ Top.fn = "_carve_heightmap_pass"
    /\ move_code' = move_code \o
           PassCode(Top.arg.carve_direction, Top.arg.carve_direction_points,
                    Top.arg.cross_direction, Top.arg.cross_direction_points)
    /\ stack' = Returned
    /\ gpc' = AfterReturn(stack')
    /\ UNCHANGED <<mm_ratio, min_move_dist, gen_bit_size, call>>
    /\ UNCHANGED notCarve

CarveNext ==
    \/ CarvePathsEnter \/ CarvePathsFor \/ CarvePathsReturn
    \/ CarvePathEnter \/ CarvePathBody \/ CarveHeightmapPass

InitCarve ==
    /\ CarveInit /\ TraceIdle /\ PathsIdle /\ CompressIdle /\ HeightIdle
    /\ SplitIdle /\ FromIdle

SpecCarve == InitCarve /\ [][CarveNext]_vars

----------------------------------------------------------------------------
(* Properties of the Generator *)

\* the kinds of line of move_code, told by their command word and fields
IsHover(c) == c.op = "G0" /\ DOMAIN c = {"op", "Z"} /\ c.Z = 1

IsRapid(c) == c.op = "G0" /\ ("X" \in DOMAIN c \/ "Y" \in DOMAIN c)

IsPlunge(c) == c.op = "G1" /\ DOMAIN c = {"op", "Z", "F"} /\ c.F = 250

IsFeed(c) == c.op = "G1" /\ DOMAIN c = {"op", "F"} /\ c.F = 750

IsCut(c) == c.op = "G1" /\ ("X" \in DOMAIN c \/ "Y" \in DOMAIN c)

\* the positions in code of the plunges and of the rapid moves, in order
PlungesOf(code) ==
    SelectSeq([j \in 1..Len(code) |-> j], LAMBDA j : IsPlunge(code[j]))

RapidsOf(code) ==
    SelectSeq([j \in 1..Len(code) |-> j], LAMBDA j : IsRapid(code[j]))

PublicCall == call # <<>> /\ call.fn \in {"carve_path", "carve_paths"}

\* C12 (depth stepping): a carve_paths or carve_path call with single_pass
\* false, bit_size > 0 and depth d > 0 that returned has plunged, with
\* h = bit_size/2 and n = ceiling(d/h), at the depths d-(n-1)h, ..., d-h, d in
\* this order: the first in (0, h], each h deeper than the one before, the
\* last at d; and in carve_paths every path is carved once at a depth, in the
\* order of the paths, before any path is carved at the next depth.
C12_DepthStepping ==
    (gpc = "done" /\ PublicCall /\ ~call.single_pass /\ gen_bit_size > 0) =>
        LET h       == gen_bit_size \div 2
            n       == (call.depth + h - 1) \div h
            carved  == IF call.fn = "carve_path" THEN <<call.arg>> ELSE call.arg
            m       == Len(carved)
            plunges == PlungesOf(move_code)
            starts  == RapidsOf(move_code)
            DepthOf(pass) == call.depth - (n - pass) * h
        IN  /\ Len(plunges) = n * m
            /\ Len(starts) = n * m
            /\ DepthOf(1) > 0 /\ DepthOf(1) <= h /\ DepthOf(n) = call.depth
            /\ \A pass \in 1..n : \A k \in 1..m :
                   LET j == (pass - 1) * m + k
                   IN  /\ move_code[plunges[j]].Z = -DepthOf(pass)
                       /\ move_code[starts[j]].X = carved[k][1][1] * mm_ratio
                       /\ move_code[starts[j]].Y = carved[k][1][2] * mm_ratio

\* carve_paths has carved two paths in three passes
C12_Witness ==
    /\ gpc = "done"
    /\ call.fn = "carve_paths" /\ ~call.single_pass
    /\ gen_bit_size = 2 /\ call.depth = 3
    /\ Len(call.arg) = 2 /\ call.arg[1] # call.arg[2]
    /\ Len(PlungesOf(move_code)) = 6

\* C13 (boustrophedon): in the code of one heightmap pass of a Generator
\* with mm_ratio > 0 there is one rapid move per band; the rapid move of
\* band 0, 2, ... goes to the sample of its line with the least carve-axis
\* coordinate and the cuts that follow are in ascending coordinate, that of
\* band 1, 3, ... goes to the sample with the greatest coordinate and the
\* cuts are in descending coordinate; with min_move_dist = 0 every sample
\* of the line is cut.
C13_Boustrophedon ==
    (gpc = "done" /\ call.fn = "_carve_heightmap_pass" /\ mm_ratio > 0) =>
        LET lines  == call.arg.carve_direction_points
            nb     == Len(lines)
            rapids == RapidsOf(move_code)
            Coord(j) == IF call.arg.carve_direction = "X"
                        THEN move_code[j].X ELSE move_code[j].Y
            BandEnd(b) == IF b < nb THEN rapids[b + 1] ELSE Len(move_code) + 1
            Cuts(b) == {j \in (rapids[b] + 1)..(BandEnd(b) - 1) :
                           IsCut(move_code[j])}
        IN  /\ Len(rapids) = nb
            /\ \A b \in 1..nb :
                   LET ascending == (b % 2 = 1)
                   IN  /\ \A s \in Range(lines[b]) :
                              IF ascending THEN Coord(rapids[b]) <= s[1]
                                           ELSE Coord(rapids[b]) >= s[1]
                       /\ \E s \in Range(lines[b]) : Coord(rapids[b]) = s[1]
                       /\ \A i, j \in Cuts(b) :
                              i < j => IF ascending THEN Coord(i) < Coord(j)
                                                    ELSE Coord(i) > Coord(j)
                       /\ min_move_dist = 0 =>
                              Cardinality(Cuts(b)) = Len(lines[b])

\* a pass over three bands of two samples each, every sample cut
C13_Witness ==
    /\ gpc = "done"
    /\ call.fn = "_carve_heightmap_pass"
    /\ mm_ratio > 0 /\ min_move_dist = 0
    /\ Len(call.arg.carve_direction_points) = 3
    /\ Len(call.arg.carve_direction_points[1]) = 2
    /\ Len(RapidsOf(move_code)) = 3

\* C14: carve_path ends the cut at the last vertex of the path: in the code
\* of a carve_path call that returned, whatever min_move_dist, the last
\* position commanded before each hover that closes a cut (by the rapid move
\* or by a cutting move) is the position in mm of the last vertex.
C14_EndsAtFinalVertex ==
    (gpc = "done" /\ call.fn = "carve_path") =>
        LET final == Last(call.arg)
            Moves(j) == {i \in 1..(j - 1) :
                            IsRapid(move_code[i]) \/ IsCut(move_code[i])}
            Latest(S) == CHOOSE i \in S : \A k \in S : k <= i
        IN  \A j \in 2..Len(move_code) :
                IsHover(move_code[j]) =>
                    /\ Moves(j) # {}
                    /\ move_code[Latest(Moves(j))].X = final[1] * mm_ratio
                    /\ move_code[Latest(Moves(j))].Y = final[2] * mm_ratio

\* the last vertex is nearer than min_move_dist to every position emitted
\* before it, and it was emitted after the loop
C14_Witness ==
    /\ gpc = "done"
    /\ call.fn = "carve_path" /\ call.single_pass
    /\ min_move_dist = 2 /\ mm_ratio = 1
    /\ Len(call.arg) = 3 /\ Last(call.arg) # call.arg[1]
    /\ Len(move_code) = 6
    /\ IsCut(move_code[5])

\* C16: a Generator with bit_size <= 0 or mm_ratio <= 0 is rejected: its
\* carve_paths and carve_path calls end in an error, never return, and emit
\* no move code.  (__init__ and the carve methods validate nothing: such a
\* Generator carves, and with single_pass false and bit_size <= 0 the
\* recursion never reaches its end.)
C16_InvalidRejected ==
    (PublicCall /\ (gen_bit_size <= 0 \/ mm_ratio <= 0)) =>
        /\ move_code = <<>>
        /\ gpc # "done"

\* C18: in move_code the lines of every path and band are in the order
\* hover, rapid move, plunge at the plunge feed, traverse feed, cutting
\* moves, hover: a rapid move with an X or Y field directly follows a hover
\* and is followed by the plunge and the feed line; a cutting move with an
\* X or Y field follows the feed line or another cutting move, so it lies
\* between a plunge and the next hover; the code starts and ends with a
\* hover.
C18_NoRapidWhileLowered ==
    /\ \A j \in 1..Len(move_code) :
           LET c == move_code[j]
           IN  /\ IsHover(c) \/ IsRapid(c) \/ IsPlunge(c) \/ IsFeed(c) \/ IsCut(c)
               /\ IsRapid(c) =>
                      /\ j > 1 /\ IsHover(move_code[j - 1])
                      /\ j + 2 <= Len(move_code)
                      /\ IsPlunge(move_code[j + 1])
                      /\ IsFeed(move_code[j + 2])
               /\ IsPlunge(c) => j > 1 /\ IsRapid(move_code[j - 1])
               /\ IsFeed(c) => j > 1 /\ IsPlunge(move_code[j - 1])
               /\ IsCut(c) =>
                      /\ j > 1
                      /\ IsFeed(move_code[j - 1]) \/ IsCut(move_code[j - 1])
    /\ move_code # <<>> =>
           IsHover(move_code[1]) /\ IsHover(Last(move_code))

\* a heightmap pass has cut in its second band, after the hover and the
\* rapid move that follow the first
C18_Witness ==
    /\ gpc = "done"
    /\ Len(RapidsOf(move_code)) >= 2
    /\ \E j \in 1..Len(move_code) :
           /\ j > RapidsOf(move_code)[2]
           /\ IsCut(move_code[j])
           /\ "Z" \in DOMAIN move_code[j]

----------------------------------------------------------------------------
(* The whole program: any one of the operations above, run on its inputs *)

Init ==
    \/ InitTrace \/ InitPaths \/ InitCompress \/ InitHeight \/ InitSplit
    \/ InitFrom \/ InitCarve

Next ==
    \/ TraceNext \/ PathsNext \/ CompressNext \/ HeightNext \/ SplitNext
    \/ FromNext \/ CarveNext

Spec == Init /\ [][Next]_vars

====
